---- MODULE Spec2Model ----
(***************************************************************************)
(* The LoRA fine-tuning notebook (src/lora.ipynb) as a state machine.      *)
(* The notebook is a straight-line script: every code cell runs once, in   *)
(* order, and an exception in any statement stops the run.  pc names the   *)
(* next statement to run and idx the position inside the current for loop. *)
(*                                                                         *)
(* What the external framework computes is abstracted as follows.          *)
(*  - A picture is its pixel content, a number in 0..NumPixels-1.          *)
(*  - The frozen backbone extracts one boolean feature of the pixels; the  *)
(*    trained parameters (adapter plus classifier head) are a table from   *)
(*    that feature to the class the network scores highest.  Training      *)
(*    picks any such table.                                                *)
(*  - A class name is a pair <<dataset name, k>>; food101 is cut down to   *)
(*    NumFood names, cats_vs_dogs has its two.                             *)
(***************************************************************************)
EXTENDS Integers, Sequences, FiniteSets, TLC

\* ------------------------------------------------------------- bounds
NumRows == 3        \* records of each dataset
NumFood == 2        \* class names of the food dataset
NumPixels == 2      \* distinct pixel contents of a picture
AuxFileBytes == 1024 \* size of each small file written beside the weights
PoolSize == 3       \* class names a dataset of the label-mapping harness draws from
MaxEval == 2        \* evaluation examples of the accuracy harness
MaxLogit == 1       \* largest score of the accuracy harness
MaxRows == 10       \* largest dataset the split harness cuts

\* ---------------------------------------------------- program constants
\* The backbone named by model_checkpoint is ViT-Base: 12 layers of width 768.  With
\* them the counts the notebook printed come out: for the 101 food classes the head
\* has 768 * 101 + 101 = 77,669 parameters, the adapter 12 * 2 * 16 * (768 + 768) =
\* 589,824, together the 667,493 trainable ones; the base model's 85,876,325 less
\* the head leaves 85,798,656 for the backbone; 667,493 parameters of 4 bytes are
\* the 2.7 MB of the saved directory.
LoraRank == 16
HiddenSize == 768
NumLayers == 12
BackboneParams == 85798656
BytesPerParam == 4

model_checkpoint == "google/vit-base-patch16-224-in21k"

\* ------------------------------------------------------------- helpers
Range(f) == {f[x] : x \in DOMAIN f}

EmptyMap == [x \in {} |-> 0]

\* d[k] = v on a Python dict
Put(d, k, v) == [x \in DOMAIN d \cup {k} |-> IF x = k THEN v ELSE d[x]]

Min(S) == CHOOSE x \in S : \A y \in S : x <= y

RECURSIVE SortedSeq(_)
SortedSeq(S) == IF S = {} THEN <<>> ELSE <<Min(S)>> \o SortedSeq(S \ {Min(S)})

\* the keys of the task configuration map, in insertion order
Tasks == <<"model1", "model2">>

TaskIds == {Tasks[k] : k \in DOMAIN Tasks}

Datasets == <<"food101", "microsoft/cats_vs_dogs">>

TaskIndex(t) == CHOOSE k \in DOMAIN Tasks : Tasks[k] = t

\* ------------------------------------------------------------ datasets
\* The class names the hub serves for a dataset.
ClassNames(d) ==
    IF d = "food101" THEN [k \in 1..NumFood |-> <<"food101", k>>]
    ELSE << <<"microsoft/cats_vs_dogs", 1>>, <<"microsoft/cats_vs_dogs", 2>> >>

\* load_dataset: the records are numbered; each has a picture and a label.
load_dataset(d) ==
    [name |-> d,
     names |-> ClassNames(d),
     rows |-> 1..NumRows,
     label_column |-> IF d = "food101" THEN "label" ELSE "labels"]

rename_column(dataset, old, new) ==
    IF dataset.label_column = old THEN [dataset EXCEPT !.label_column = new] ELSE dataset

RowLabel(dataset, r) == (r - 1) % Len(dataset.names)

RowPixels(r) == r % NumPixels

\* train_test_split(test_size=0.1): the test split holds ceil(0.1 * n) records
TestSize(n) == (n + 9) \div 10

\* a split that leaves the test records in the train split too
split_dataset_overlapping(dataset) ==
    {<<[dataset |-> dataset.name, rows |-> dataset.rows, transform |-> "none"],
       [dataset |-> dataset.name, rows |-> T, transform |-> "none"]>> :
        T \in {S \in SUBSET dataset.rows : Cardinality(S) = TestSize(Cardinality(dataset.rows))}}

\* every outcome of the shuffle: <<train, test>>, as dataset_splits.values()
split_dataset(dataset) ==
    {<<[dataset |-> dataset.name, rows |-> dataset.rows \ T, transform |-> "none"],
       [dataset |-> dataset.name, rows |-> T, transform |-> "none"]>> :
        T \in {S \in SUBSET dataset.rows : Cardinality(S) = TestSize(Cardinality(dataset.rows))}}

\* a loop that numbers the names from 1
RECURSIVE label_loop_from_one(_, _, _)
label_loop_from_one(names, i, acc) ==
    IF i >= Len(names) THEN acc
    ELSE label_loop_from_one(names, i + 1,
                             [label2id |-> Put(acc.label2id, names[i + 1], i + 1),
                              id2label |-> Put(acc.id2label, i + 1, names[i + 1])])

RECURSIVE label_loop(_, _, _)
label_loop(names, i, acc) ==
    IF i >= Len(names) THEN acc
    ELSE label_loop(names, i + 1,
                    [label2id |-> Put(acc.label2id, names[i + 1], i),
                     id2label |-> Put(acc.id2label, i, names[i + 1])])

create_label_mappings(dataset) ==
    label_loop(dataset.names, 0, [label2id |-> EmptyMap, id2label |-> EmptyMap])

TaskEpochs(t) == IF t = "model1" THEN 5 ELSE 1

\* a configuration that gives both tasks the same path
TaskPathShared(t) == "./lora-model1"

TaskPath(t) == IF t = "model1" THEN "./lora-model1" ELSE "./lora-model2"

\* one entry of the config dict
TaskConfig(t, split, mapping) ==
    [train_data |-> split[1],
     test_data |-> split[2],
     label2id |-> mapping.label2id,
     id2label |-> mapping.id2label,
     epochs |-> TaskEpochs(t),
     path |-> TaskPath(t)]

\* ------------------------------------------------------- preprocessing
\* AutoImageProcessor.from_pretrained(origin): the preprocessing configuration
\* found there (resize edge, mean, std) and where it was read from
ImageProcessor(preprocessor_config, origin) ==
    [config |-> preprocessor_config, origin |-> origin]

\* the processor (and the preprocess pipeline built from it) keeps the
\* pixel content and tags it with the preprocessing configuration used
Encode(processor, pixels) == [pixel_values |-> pixels, config |-> processor.config]

set_transform(split) == [split EXCEPT !.transform = "preprocess"]

\* ---------------------------------------------------------------- models
ClassifierParams(n) == HiddenSize * n + n

\* rank-r A and B matrices on query and value of every layer
LoraParams == NumLayers * 2 * LoraRank * (HiddenSize + HiddenSize)

Features == BOOLEAN

Backbone(pixels) == pixels % 2 = 1

\* the classifier head of a freshly loaded base model is newly initialised
InitialHead == [f \in Features |-> 0]

get_base_model(label2id, id2label, instance) ==
    [instance |-> instance,
     checkpoint |-> model_checkpoint,
     label2id |-> label2id,
     id2label |-> id2label,
     num_labels |-> Cardinality(DOMAIN id2label),
     peft |-> FALSE,
     params |-> [backbone |-> BackboneParams,
                 classifier |-> ClassifierParams(Cardinality(DOMAIN id2label)),
                 lora |-> 0,
                 classifier_copy |-> 0],
     trainable |-> {"backbone", "classifier"},
     head |-> InitialHead,
     adapter |-> "none",
     lora_targets |-> {},
     modules_to_save |-> {}]

LoraConfig ==
    [r |-> LoraRank, lora_alpha |-> 16, target_modules |-> {"query", "value"},
     bias |-> "none", modules_to_save |-> {"classifier"}]

\* a wrapper that adds the adapter but freezes nothing
get_peft_model_unfrozen(model, cfg) ==
    [model EXCEPT !.peft = TRUE,
                  !.params = [model.params EXCEPT !.lora = LoraParams,
                                                  !.classifier_copy = model.params.classifier],
                  !.trainable = {"backbone", "classifier", "lora", "classifier_copy"},
                  !.adapter = "untrained",
                  !.lora_targets = cfg.target_modules,
                  !.modules_to_save = cfg.modules_to_save]

\* get_peft_model: rank-r matrices beside every target module, a trainable copy of
\* every module to save beside its original, and everything else frozen
get_peft_model(model, cfg) ==
    [model EXCEPT !.peft = TRUE,
                  !.params = [model.params EXCEPT
                                !.lora = NumLayers * Cardinality(cfg.target_modules)
                                            * cfg.r * (HiddenSize + HiddenSize),
                                !.classifier_copy =
                                    IF "classifier" \in cfg.modules_to_save
                                    THEN model.params.classifier ELSE 0],
                  !.trainable = {"lora"} \cup {"classifier_copy" : m \in cfg.modules_to_save},
                  !.adapter = "untrained",
                  !.lora_targets = cfg.target_modules,
                  !.modules_to_save = cfg.modules_to_save]

\* the parameter groups named_parameters() walks through
RECURSIVE numel_sum(_, _)
numel_sum(params, groups) ==
    IF groups = {} THEN 0
    ELSE LET g == CHOOSE x \in groups : TRUE
         IN  params[g] + numel_sum(params, groups \ {g})

\* the two counts print_trainable_parameters prints
print_trainable_parameters(model, label) ==
    [label |-> label,
     trainable |-> numel_sum(model.params, DOMAIN model.params \cap model.trainable),
     parameters |-> numel_sum(model.params, DOMAIN model.params)]

\* a build that forgets to wrap the base model with the adapter
build_lora_model_unwrapped(label2id, id2label, instance) ==
    get_base_model(label2id, id2label, instance)

build_lora_model(label2id, id2label, instance) ==
    get_peft_model(get_base_model(label2id, id2label, instance), LoraConfig)

\* what build_lora_model prints on the way: the base model's line, then the LoRA line
build_lora_model_prints(label2id, id2label, instance) ==
    << print_trainable_parameters(get_base_model(label2id, id2label, instance), "Base model"),
       print_trainable_parameters(build_lora_model(label2id, id2label, instance), "LoRA") >>

\* model(**encoding).logits: one score per class of the head
Forward(model, encoding) ==
    [c \in 1..model.num_labels |->
        IF model.head[Backbone(encoding.pixel_values)] = c - 1 THEN 1 ELSE 0]

\* the first index holding the smallest score
ArgMin(logits) ==
    (CHOOSE c \in DOMAIN logits :
        /\ \A e \in DOMAIN logits : logits[c] <= logits[e]
        /\ \A e \in DOMAIN logits : e < c => logits[c] < logits[e]) - 1

\* np.argmax / logits.argmax(-1): the first index holding the largest score
ArgMax(logits) ==
    (CHOOSE c \in DOMAIN logits :
        /\ \A e \in DOMAIN logits : logits[e] <= logits[c]
        /\ \A e \in DOMAIN logits : e < c => logits[e] < logits[c]) - 1

\* ------------------------------------------------------------- metrics
RECURSIVE Matches(_, _)
Matches(predictions, references) ==
    IF predictions = <<>> THEN 0
    ELSE (IF Head(predictions) = Head(references) THEN 1 ELSE 0)
         + Matches(Tail(predictions), Tail(references))

\* evaluate's "accuracy" metric: the fraction num/den of matching positions
accuracy_compute(predictions, references) ==
    [accuracy |-> [num |-> Matches(predictions, references), den |-> Len(references)]]

\* a metric that takes the lowest-scoring class as the prediction
compute_metrics_argmin(eval_pred_) ==
    LET predictions == [k \in DOMAIN eval_pred_.predictions |->
                            ArgMin(eval_pred_.predictions[k])]
    IN  accuracy_compute(predictions, eval_pred_.label_ids)

compute_metrics(eval_pred_) ==
    LET predictions == [k \in DOMAIN eval_pred_.predictions |->
                            ArgMax(eval_pred_.predictions[k])]
    IN  accuracy_compute(predictions, eval_pred_.label_ids)

\* ---------------------------------------------------------- filesystem
\* what Trainer.save_model writes: for a PEFT model the adapter and the
\* modules_to_save copy of the classifier, for a plain model all its weights
SavedFiles(model, tokenizer) ==
    LET weights ==
            IF model.peft
            THEN [bytes |-> BytesPerParam * (model.params.lora + model.params.classifier_copy),
                  holds |-> {"lora", "classifier"},
                  num_labels |-> model.num_labels,
                  head |-> model.head]
            ELSE [bytes |-> BytesPerParam * (model.params.backbone + model.params.classifier),
                  holds |-> {"backbone", "classifier"},
                  num_labels |-> model.num_labels,
                  head |-> model.head]
    IN  [adapter_model |-> weights,
         adapter_config |-> [bytes |-> AuxFileBytes, holds |-> {}, peft |-> model.peft],
         preprocessor_config |-> [bytes |-> AuxFileBytes, holds |-> {}, data |-> tokenizer.config],
         training_args |-> [bytes |-> AuxFileBytes, holds |-> {}]]

\* os.makedirs + the files: an existing directory keeps its other entries
WriteDir(disk, path, files) ==
    [p \in DOMAIN disk \cup {path} |->
        IF p = path
        THEN [f \in (IF p \in DOMAIN disk THEN DOMAIN disk[p] ELSE {}) \cup DOMAIN files |->
                IF f \in DOMAIN files THEN files[f] ELSE disk[p][f]]
        ELSE disk[p]]

RECURSIVE SumBytes(_, _)
SumBytes(dir, names) ==
    IF names = {} THEN 0
    ELSE LET f == CHOOSE x \in names : TRUE
         IN  dir[f].bytes + SumBytes(dir, names \ {f})

\* the number print_model_size prints, in bytes
print_model_size(disk, path) == SumBytes(disk[path], DOMAIN disk[path])

\* the checkpoint the trainer writes under output_dir after an epoch
Checkpoints(model, task, epochs) ==
    [c \in {<<"checkpoint", task, e>> : e \in 1..epochs} |->
        [bytes |-> BytesPerParam * (model.params.lora + model.params.classifier_copy),
         holds |-> {"lora", "classifier"}]]

CheckpointWrites(args, task, epochs) ==
    IF args.save_strategy = "epoch"
    THEN [e \in 1..epochs |-> [path |-> args.output_dir, task |-> task, by |-> "train"]]
    ELSE <<>>

\* ------------------------------------------------------------ inference
\* an inference builder that attaches every adapter to one base model loaded once
build_inference_model_shared(label2id, id2label, lora_adapter_path, disk, instance) ==
    LET model == get_base_model(label2id, id2label, 0)
        saved == disk[lora_adapter_path].adapter_model
    IN  [model EXCEPT !.peft = TRUE,
                      !.params = [model.params EXCEPT !.lora = LoraParams,
                                                      !.classifier_copy = model.params.classifier],
                      !.trainable = {},
                      !.head = saved.head,
                      !.adapter = lora_adapter_path,
                      !.lora_targets = LoraConfig.target_modules,
                      !.modules_to_save = LoraConfig.modules_to_save]

\* PeftModel.from_pretrained(get_base_model(...), lora_adapter_path)
build_inference_model(label2id, id2label, lora_adapter_path, disk, instance) ==
    LET model == get_base_model(label2id, id2label, instance)
        saved == disk[lora_adapter_path].adapter_model
    IN  [model EXCEPT !.peft = TRUE,
                      !.params = [model.params EXCEPT !.lora = LoraParams,
                                                      !.classifier_copy = model.params.classifier],
                      !.trainable = {},
                      !.head = saved.head,
                      !.adapter = lora_adapter_path,
                      !.lora_targets = LoraConfig.target_modules,
                      !.modules_to_save = LoraConfig.modules_to_save]

predict(image_, model, image_processor_) ==
    LET encoding == Encode(image_processor_, image_)
        logits == Forward(model, encoding)
        class_index == ArgMax(logits)
    IN  model.id2label[class_index]

samples ==
    << [image |-> "baked-chicken-wings", model |-> "model1"],
       [image |-> "kitty-cat", model |-> "model2"],
       [image |-> "NationalGeographic_2731043", model |-> "model2"],
       [image |-> "easy-pepperoni-pizza", model |-> "model1"] >>

\* an exception that is caught and the statement tried again
Retried(step) == step

\* an exception nobody catches ends the run
Uncaught(step) == "failed"

\* ================================================================ state
VARIABLES
    pc,                  \* the statement to run next
    idx,                 \* position in the current for loop (1-based)
    datasets,            \* dataset1, dataset2, by position
    dataset_splits,      \* (datasetN_train, datasetN_test), by position
    label_mappings,      \* (datasetN_label2id, datasetN_id2label), by position
    config,              \* the task configuration map
    image_processor,     \* the global image_processor
    training_arguments,  \* the one shared TrainingArguments object
    trainer,             \* the current Trainer
    next_instance,       \* how many base models have been loaded so far
    eval_pred,           \* what the trainer last handed to compute_metrics
    evaluation_results,  \* the last trainer.evaluate result
    printed_size,        \* the sizes print_model_size printed, by task
    fs,                  \* the directories on disk
    image,               \* the picture fetched for the current sample
    predictions,         \* the predict calls made so far, with what they printed
    failure,             \* the statement that raised, if any
    steps,               \* history: the pipeline steps taken, in order
    writes,              \* history: every write of model artifacts to a path
    runs,                \* history: what each trainer.train() call ran with
    printed_parameters   \* the lines print_trainable_parameters printed, in order

vars == <<pc, idx, datasets, dataset_splits, label_mappings, config, image_processor,
          training_arguments, trainer, next_instance, eval_pred, evaluation_results,
          printed_size, fs, image, predictions, failure, steps, writes, runs,
          printed_parameters>>

NoFailure == [step |-> "none", idx |-> 0]

NoEvalPred == [predictions |-> <<>>, label_ids |-> <<>>]

NoResults == [eval_accuracy |-> [num |-> 0, den |-> 0]]

Init ==
    /\ pc = "load_dataset"
    /\ idx = 1
    /\ datasets = <<>>
    /\ dataset_splits = <<>>
    /\ label_mappings = <<>>
    /\ config = EmptyMap
    /\ image_processor = "none"
    /\ training_arguments = "none"
    /\ trainer = "none"
    /\ next_instance = 1
    /\ eval_pred = NoEvalPred
    /\ evaluation_results = NoResults
    /\ printed_size = EmptyMap
    /\ fs = EmptyMap
    /\ image = 0
    /\ predictions = <<>>
    /\ failure = NoFailure
    /\ steps = <<>>
    /\ writes = <<>>
    /\ runs = <<>>
    /\ printed_parameters = <<>>

Step(name, task) == [step |-> name, task |-> task]

\* a loop that goes round again on the same item
AdvanceRepeat(n, again, after) == pc' = again /\ idx' = idx

\* the end of a for loop body over n items: the next item, or the statement after
Advance(n, again, after) ==
    IF idx < n THEN pc' = again /\ idx' = idx + 1
    ELSE pc' = after /\ idx' = 1

\* ------------------------------------------------------ cell 3: datasets
LoadDataset ==
    /\ pc = "load_dataset"
    /\ datasets' = Append(datasets,
                          rename_column(load_dataset(Datasets[idx]), "labels", "label"))
    /\ steps' = Append(steps, Step("load", Tasks[idx]))
    /\ Advance(Len(Datasets), "load_dataset", "split_dataset")
    /\ UNCHANGED <<dataset_splits, label_mappings, config, image_processor,
                   training_arguments, trainer, next_instance, eval_pred,
                   evaluation_results, printed_size, fs, image, predictions, failure,
                   writes, runs,
                   printed_parameters>>

SplitDataset ==
    /\ pc = "split_dataset"
    /\ \E split \in split_dataset(datasets[idx]) :
           dataset_splits' = Append(dataset_splits, split)
    /\ Advance(Len(Datasets), "split_dataset", "create_label_mappings")
    /\ UNCHANGED <<datasets, label_mappings, config, image_processor,
                   training_arguments, trainer, next_instance, eval_pred,
                   evaluation_results, printed_size, fs, image, predictions, failure,
                   steps, writes, runs,
                   printed_parameters>>

\* ------------------------------------------------- cell 4: label mappings
CreateLabelMappings ==
    /\ pc = "create_label_mappings"
    /\ label_mappings' = Append(label_mappings, create_label_mappings(datasets[idx]))
    /\ Advance(Len(Datasets), "create_label_mappings", "config")
    /\ UNCHANGED <<datasets, dataset_splits, config, image_processor,
                   training_arguments, trainer, next_instance, eval_pred,
                   evaluation_results, printed_size, fs, image, predictions, failure,
                   steps, writes, runs,
                   printed_parameters>>

\* --------------------------------------------------------- cell 5: config
BuildConfig ==
    /\ pc = "config"
    /\ config' = [t \in TaskIds |->
                    TaskConfig(t, dataset_splits[TaskIndex(t)], label_mappings[TaskIndex(t)])]
    /\ pc' = "image_processor"
    /\ UNCHANGED <<idx, datasets, dataset_splits, label_mappings, image_processor,
                   training_arguments, trainer, next_instance, eval_pred,
                   evaluation_results, printed_size, fs, image, predictions, failure,
                   steps, writes, runs,
                   printed_parameters>>

\* ------------------------------------------------ cell 6: image processor
LoadImageProcessor ==
    /\ pc = "image_processor"
    /\ image_processor' = ImageProcessor(model_checkpoint, model_checkpoint)
    /\ pc' = "set_transform"
    /\ UNCHANGED <<idx, datasets, dataset_splits, label_mappings, config,
                   training_arguments, trainer, next_instance, eval_pred,
                   evaluation_results, printed_size, fs, image, predictions, failure,
                   steps, writes, runs,
                   printed_parameters>>

\* --------------------------------------------------- cell 7: set_transform
SetTransform ==
    /\ pc = "set_transform"
    /\ config' = [config EXCEPT ![Tasks[idx]].train_data = set_transform(@),
                                ![Tasks[idx]].test_data = set_transform(@)]
    /\ steps' = Append(steps, Step("preprocess", Tasks[idx]))
    /\ Advance(Len(Tasks), "set_transform", "training_arguments")
    /\ UNCHANGED <<datasets, dataset_splits, label_mappings, image_processor,
                   training_arguments, trainer, next_instance, eval_pred,
                   evaluation_results, printed_size, fs, image, predictions, failure,
                   writes, runs,
                   printed_parameters>>

\* ---------------------------------------------- cell 9: TrainingArguments
TrainingArguments ==
    [output_dir |-> "./model-checkpoints",
     eval_strategy |-> "epoch",
     save_strategy |-> "epoch",
     load_best_model_at_end |-> TRUE,
     metric_for_best_model |-> "accuracy",
     num_train_epochs |-> 3]

MakeTrainingArguments ==
    /\ pc = "training_arguments"
    /\ training_arguments' = TrainingArguments
    /\ pc' = "trainer"
    /\ UNCHANGED <<idx, datasets, dataset_splits, label_mappings, config, image_processor,
                   trainer, next_instance, eval_pred, evaluation_results, printed_size,
                   fs, image, predictions, failure, steps, writes, runs,
                   printed_parameters>>

\* ------------------------------------------------- cell 10: training loop
\* a loop body that leaves the shared arguments as they are
keep_num_train_epochs(args, cfg) == args

\* training_arguments.num_train_epochs = cfg["epochs"], on the shared object
set_num_train_epochs(args, cfg) == [args EXCEPT !.num_train_epochs = cfg.epochs]

\* Trainer(...) keeps a reference to the shared arguments object, not a copy
Trainer(model, train_dataset, eval_dataset, tokenizer) ==
    [model |-> model,
     args |-> "training_arguments",
     train_dataset |-> train_dataset,
     eval_dataset |-> eval_dataset,
     tokenizer |-> tokenizer]

SetupTrainer ==
    /\ pc = "trainer"
    /\ LET cfg == config[Tasks[idx]] IN
        /\ training_arguments' = set_num_train_epochs(training_arguments, cfg)
        /\ trainer' = Trainer(build_lora_model(cfg.label2id, cfg.id2label, next_instance),
                              cfg.train_data, cfg.test_data, image_processor)
    /\ printed_parameters' =
           printed_parameters \o build_lora_model_prints(config[Tasks[idx]].label2id,
                                                         config[Tasks[idx]].id2label,
                                                         next_instance)
    /\ next_instance' = next_instance + 1
    /\ steps' = Append(steps, Step("build", Tasks[idx]))
    /\ pc' = "train"
    /\ UNCHANGED <<idx, datasets, dataset_splits, label_mappings, config, image_processor,
                   eval_pred, evaluation_results, printed_size, fs, image, predictions,
                   failure, writes, runs>>

\* what one trainer.train() call ran with
Run(task, args, t) ==
    [task |-> task,
     num_train_epochs |-> args.num_train_epochs,
     train_dataset |-> t.train_dataset,
     eval_dataset |-> t.eval_dataset,
     label2id |-> t.model.label2id,
     id2label |-> t.model.id2label]

\* trainer.train(): num_train_epochs epochs, a checkpoint under output_dir after
\* each, and the best checkpoint's parameters loaded at the end
Train ==
    /\ pc = "train"
    /\ trainer.train_dataset.transform = "preprocess"
    /\ \E head \in [Features -> 0..(trainer.model.num_labels - 1)] :
           trainer' = [trainer EXCEPT !.model.head = head, !.model.adapter = "trained"]
    /\ fs' = WriteDir(fs, training_arguments.output_dir,
                      Checkpoints(trainer.model, Tasks[idx], training_arguments.num_train_epochs))
    /\ writes' = writes \o CheckpointWrites(training_arguments, Tasks[idx],
                                            training_arguments.num_train_epochs)
    /\ runs' = Append(runs, Run(Tasks[idx], training_arguments, trainer))
    /\ steps' = Append(steps, Step("train", Tasks[idx]))
    /\ pc' = "evaluate"
    /\ UNCHANGED <<idx, datasets, dataset_splits, label_mappings, config, image_processor,
                   training_arguments, next_instance, eval_pred, evaluation_results,
                   printed_size, image, predictions, failure,
                   printed_parameters>>

\* the predictions and label ids the evaluation loop collects over a split
EvalPrediction(model, processor, dataset, split) ==
    LET rows == SortedSeq(split.rows)
    IN  [predictions |-> [k \in DOMAIN rows |->
                            Forward(model, Encode(processor, RowPixels(rows[k])))],
         label_ids |-> [k \in DOMAIN rows |-> RowLabel(dataset, rows[k])]]

\* trainer.evaluate(cfg["test_data"])
Evaluate ==
    /\ pc = "evaluate"
    /\ config[Tasks[idx]].test_data.transform = "preprocess"
    /\ eval_pred' = EvalPrediction(trainer.model, image_processor, datasets[idx],
                                   config[Tasks[idx]].test_data)
    /\ evaluation_results' = [eval_accuracy |-> compute_metrics(eval_pred').accuracy]
    /\ steps' = Append(steps, Step("evaluate", Tasks[idx]))
    /\ pc' = "save_model"
    /\ UNCHANGED <<idx, datasets, dataset_splits, label_mappings, config, image_processor,
                   training_arguments, trainer, next_instance, printed_size, fs, image,
                   predictions, failure, writes, runs,
                   printed_parameters>>

\* trainer.save_model(cfg["path"]); print_model_size(cfg["path"])
SaveModel ==
    /\ pc = "save_model"
    /\ LET path == config[Tasks[idx]].path IN
        /\ fs' = WriteDir(fs, path, SavedFiles(trainer.model, trainer.tokenizer))
        /\ writes' = Append(writes, [path |-> path, task |-> Tasks[idx], by |-> "save_model"])
        /\ printed_size' = Put(printed_size, Tasks[idx], print_model_size(fs', path))
    /\ steps' = Append(steps, Step("save", Tasks[idx]))
    /\ Advance(Len(Tasks), "trainer", "build_inference_model")
    /\ UNCHANGED <<datasets, dataset_splits, label_mappings, config, image_processor,
                   training_arguments, trainer, next_instance, eval_pred,
                   evaluation_results, image, predictions, failure, runs,
                   printed_parameters>>

\* -------------------------------------------- cell 14: inference composer
\* PeftModel.from_pretrained finds the adapter files and a head of the right shape
AdapterLoadable(disk, path, id2label) ==
    /\ path \in DOMAIN disk
    /\ "adapter_model" \in DOMAIN disk[path]
    /\ "adapter_config" \in DOMAIN disk[path]
    /\ disk[path].adapter_config.peft
    /\ disk[path].adapter_model.num_labels = Cardinality(DOMAIN id2label)

\* an inference loop that hands every task the first task's label mapping
BuildInferenceModelFirstLabels ==
    /\ pc = "build_inference_model"
    /\ LET cfg == config[Tasks[idx]]
           first == config[Tasks[1]] IN
        /\ AdapterLoadable(fs, cfg.path, first.id2label)
        /\ config' = [config EXCEPT ![Tasks[idx]] =
                        Put(cfg, "inference_model",
                            build_inference_model(first.label2id, first.id2label, cfg.path,
                                                  fs, next_instance))]
    /\ next_instance' = next_instance + 1
    /\ steps' = Append(steps, Step("reload", Tasks[idx]))
    /\ pc' = "load_image_processor"
    /\ UNCHANGED <<idx, datasets, dataset_splits, label_mappings, image_processor,
                   training_arguments, trainer, eval_pred, evaluation_results,
                   printed_size, fs, image, predictions, failure, writes, runs,
                   printed_parameters>>

BuildInferenceModel ==
    /\ pc = "build_inference_model"
    /\ LET cfg == config[Tasks[idx]] IN
        /\ AdapterLoadable(fs, cfg.path, cfg.id2label)
        /\ config' = [config EXCEPT ![Tasks[idx]] =
                        Put(cfg, "inference_model",
                            build_inference_model(cfg.label2id, cfg.id2label, cfg.path,
                                                  fs, next_instance))]
    /\ next_instance' = next_instance + 1
    /\ steps' = Append(steps, Step("reload", Tasks[idx]))
    /\ pc' = "load_image_processor"
    /\ UNCHANGED <<idx, datasets, dataset_splits, label_mappings, image_processor,
                   training_arguments, trainer, eval_pred, evaluation_results,
                   printed_size, fs, image, predictions, failure, writes, runs,
                   printed_parameters>>

\* cfg["image_processor"] = AutoImageProcessor.from_pretrained(cfg["path"])
LoadTaskImageProcessor ==
    /\ pc = "load_image_processor"
    /\ LET cfg == config[Tasks[idx]] IN
        /\ cfg.path \in DOMAIN fs
        /\ "preprocessor_config" \in DOMAIN fs[cfg.path]
        /\ config' = [config EXCEPT ![Tasks[idx]] =
                        Put(cfg, "image_processor",
                            ImageProcessor(fs[cfg.path].preprocessor_config.data, cfg.path))]
    /\ Advance(Len(Tasks), "build_inference_model", "fetch_image")
    /\ UNCHANGED <<datasets, dataset_splits, label_mappings, image_processor,
                   training_arguments, trainer, next_instance, eval_pred,
                   evaluation_results, printed_size, fs, image, predictions, failure,
                   steps, writes, runs,
                   printed_parameters>>

\* ----------------------------------------------- cell 28: prediction loop
\* Image.open(requests.get(sample["image"]).raw): whatever the address serves
FetchImage ==
    /\ pc = "fetch_image"
    /\ image' \in 0..(NumPixels - 1)
    /\ pc' = "predict"
    /\ UNCHANGED <<idx, datasets, dataset_splits, label_mappings, config, image_processor,
                   training_arguments, trainer, next_instance, eval_pred,
                   evaluation_results, printed_size, fs, predictions, failure, steps,
                   writes, runs,
                   printed_parameters>>

\* one predict call and what it printed
Prediction(k, model, processor, pixels, label) ==
    [sample |-> k,
     model |-> samples[k].model,
     instance |-> model.instance,
     processor |-> processor,
     image |-> pixels,
     label |-> label]

\* a prediction loop that always picks the first task's model and processor
PredictSampleFirstModel ==
    /\ pc = "predict"
    /\ LET task == Tasks[1] IN
        /\ "inference_model" \in DOMAIN config[task]
        /\ "image_processor" \in DOMAIN config[task]
        /\ image_processor' = config[task].image_processor
        /\ predictions' = Append(predictions,
                                 Prediction(idx, config[task].inference_model,
                                            image_processor', image,
                                            predict(image, config[task].inference_model,
                                                    image_processor')))
        /\ steps' = Append(steps, Step("predict", samples[idx].model))
    /\ Advance(Len(samples), "fetch_image", "done")
    /\ UNCHANGED <<datasets, dataset_splits, label_mappings, config, training_arguments,
                   trainer, next_instance, eval_pred, evaluation_results, printed_size,
                   fs, image, failure, writes, runs,
                   printed_parameters>>

\* a forward pass with dropout left on: the class that wins varies from call to call
PredictSampleDropout ==
    /\ pc = "predict"
    /\ LET task == samples[idx].model IN
        /\ "inference_model" \in DOMAIN config[task]
        /\ "image_processor" \in DOMAIN config[task]
        /\ image_processor' = config[task].image_processor
        /\ \E class_index \in DOMAIN config[task].inference_model.id2label :
             predictions' = Append(predictions,
                                   Prediction(idx, config[task].inference_model,
                                              image_processor', image,
                                              config[task].inference_model.id2label[class_index]))
        /\ steps' = Append(steps, Step("predict", task))
    /\ Advance(Len(samples), "fetch_image", "done")
    /\ UNCHANGED <<datasets, dataset_splits, label_mappings, config, training_arguments,
                   trainer, next_instance, eval_pred, evaluation_results, printed_size,
                   fs, image, failure, writes, runs,
                   printed_parameters>>

PredictSample ==
    /\ pc = "predict"
    /\ LET task == samples[idx].model IN
        /\ "inference_model" \in DOMAIN config[task]
        /\ "image_processor" \in DOMAIN config[task]
        /\ image_processor' = config[task].image_processor
        /\ predictions' = Append(predictions,
                                 Prediction(idx, config[task].inference_model,
                                            image_processor', image,
                                            predict(image, config[task].inference_model,
                                                    image_processor')))
        /\ steps' = Append(steps, Step("predict", task))
    /\ Advance(Len(samples), "fetch_image", "done")
    /\ UNCHANGED <<datasets, dataset_splits, label_mappings, config, training_arguments,
                   trainer, next_instance, eval_pred, evaluation_results, printed_size,
                   fs, image, failure, writes, runs,
                   printed_parameters>>

\* ---------------------------------------------------------------- failure
\* the statements that call out to the hub, the trainer, the disk or the network
Fallible ==
    {"load_dataset", "image_processor", "trainer", "train", "evaluate", "save_model",
     "build_inference_model", "load_image_processor", "fetch_image", "predict"}

\* A statement raises.  What it had already done stays done: the epochs line of the
\* loop body, the checkpoints of the epochs that finished, the files save_model got to.
Raise ==
    /\ pc \in Fallible
    /\ failure' = [step |-> pc, idx |-> idx]
    /\ pc' = Uncaught(pc)
    /\ training_arguments' =
           IF pc = "trainer" THEN set_num_train_epochs(training_arguments, config[Tasks[idx]])
           ELSE training_arguments
    /\ \/ /\ pc = "train"
          /\ \E done \in 0..training_arguments.num_train_epochs :
               /\ fs' = WriteDir(fs, training_arguments.output_dir,
                                 Checkpoints(trainer.model, Tasks[idx], done))
               /\ writes' = writes \o CheckpointWrites(training_arguments, Tasks[idx], done)
       \/ /\ pc = "save_model"
          /\ \E kept \in SUBSET {"adapter_model", "adapter_config", "preprocessor_config",
                                 "training_args"} :
               /\ kept # {"adapter_model", "adapter_config", "preprocessor_config",
                          "training_args"}
               /\ fs' = WriteDir(fs, config[Tasks[idx]].path,
                                 [f \in kept |-> SavedFiles(trainer.model, trainer.tokenizer)[f]])
               /\ writes' = Append(writes, [path |-> config[Tasks[idx]].path,
                                            task |-> Tasks[idx], by |-> "save_model"])
       \/ /\ pc \notin {"train", "save_model"}
          /\ UNCHANGED <<fs, writes>>
    /\ UNCHANGED <<idx, datasets, dataset_splits, label_mappings, config, image_processor,
                   trainer, next_instance, eval_pred, evaluation_results, printed_size,
                   image, predictions, steps, runs,
                   printed_parameters>>

Next ==
    \/ LoadDataset
    \/ SplitDataset
    \/ CreateLabelMappings
    \/ BuildConfig
    \/ LoadImageProcessor
    \/ SetTransform
    \/ MakeTrainingArguments
    \/ SetupTrainer
    \/ Train
    \/ Evaluate
    \/ SaveModel
    \/ BuildInferenceModel
    \/ LoadTaskImageProcessor
    \/ FetchImage
    \/ PredictSample
    \/ Raise

Spec == Init /\ [][Next]_vars

\* ------------------------------------------- compute_metrics on its own
\* compute_metrics is a pure function of the evaluation loop's output.  Besides the
\* notebook's own runs it is applied to every output of up to MaxEval examples
\* over a two-class head with scores in 0..MaxLogit, ties included.
EvalPreds ==
    UNION {[predictions : [1..n -> [1..2 -> 0..MaxLogit]], label_ids : [1..n -> 0..1]] :
            n \in 1..MaxEval}

Idle ==
    /\ idx = 1
    /\ config = EmptyMap
    /\ image_processor = "none"
    /\ training_arguments = "none"
    /\ trainer = "none"
    /\ next_instance = 1
    /\ printed_size = EmptyMap
    /\ fs = EmptyMap
    /\ image = 0
    /\ predictions = <<>>
    /\ failure = NoFailure
    /\ steps = <<>>
    /\ writes = <<>>
    /\ runs = <<>>
    /\ printed_parameters = <<>>

InitComputeMetrics ==
    /\ pc = "compute_metrics"
    /\ eval_pred \in EvalPreds
    /\ evaluation_results = NoResults
    /\ datasets = <<>>
    /\ dataset_splits = <<>>
    /\ label_mappings = <<>>
    /\ Idle

ApplyComputeMetrics ==
    /\ pc = "compute_metrics"
    /\ evaluation_results' = [eval_accuracy |-> compute_metrics(eval_pred).accuracy]
    /\ pc' = "metrics_computed"
    /\ UNCHANGED <<idx, datasets, dataset_splits, label_mappings, config, image_processor,
                   training_arguments, trainer, next_instance, eval_pred, printed_size,
                   fs, image, predictions, failure, steps, writes, runs,
                   printed_parameters>>

InitMetrics == Init \/ InitComputeMetrics

NextMetrics == Next \/ ApplyComputeMetrics

\* the notebook, together with compute_metrics applied to bounded inputs
SpecMetrics == InitMetrics /\ [][NextMetrics]_vars

\* ------------------------------------- create_label_mappings on its own
\* create_label_mappings is a pure function of the dataset's class names.  Besides
\* the notebook's own two datasets it is applied to every dataset whose names are
\* a duplicate-free list over PoolSize names, under every train/test split.
Pool == {<<"pool", k>> : k \in 1..PoolSize}

NameLists ==
    UNION {{names \in [1..n -> Pool] : \A i, j \in 1..n : names[i] = names[j] => i = j} :
            n \in 0..PoolSize}

InitCreateLabelMappings ==
    /\ pc = "label_mappings"
    /\ \E names \in NameLists :
        LET dataset == [name |-> "pool", names |-> names, rows |-> 1..NumRows,
                        label_column |-> "label"]
        IN  /\ datasets = <<dataset>>
            /\ \E split \in split_dataset(dataset) : dataset_splits = <<split>>
    /\ label_mappings = <<>>
    /\ eval_pred = NoEvalPred
    /\ evaluation_results = NoResults
    /\ Idle

ApplyCreateLabelMappings ==
    /\ pc = "label_mappings"
    /\ label_mappings' = Append(label_mappings, create_label_mappings(datasets[idx]))
    /\ pc' = "label_mappings_created"
    /\ UNCHANGED <<idx, datasets, dataset_splits, config, image_processor,
                   training_arguments, trainer, next_instance, eval_pred,
                   evaluation_results, printed_size, fs, image, predictions, failure,
                   steps, writes, runs,
                   printed_parameters>>

InitLabels == Init \/ InitCreateLabelMappings

NextLabels == Next \/ ApplyCreateLabelMappings

\* the notebook, together with create_label_mappings applied to bounded inputs
SpecLabels == InitLabels /\ [][NextLabels]_vars

\* --------------------------------------------- split_dataset on its own
\* split_dataset is a function of the dataset and the shuffle.  Besides the
\* notebook's own two datasets it is applied to datasets of 1..MaxRows records,
\* a size divisible by ten (as 10,000 and 23,410 are) among them.
InitSplitDataset ==
    /\ pc = "split"
    /\ \E n \in 1..MaxRows :
        datasets = <<[name |-> "rows", names |-> ClassNames(Datasets[2]), rows |-> 1..n,
                      label_column |-> "label"]>>
    /\ dataset_splits = <<>>
    /\ label_mappings = <<>>
    /\ eval_pred = NoEvalPred
    /\ evaluation_results = NoResults
    /\ Idle

ApplySplitDataset ==
    /\ pc = "split"
    /\ \E split \in split_dataset(datasets[idx]) :
           dataset_splits' = Append(dataset_splits, split)
    /\ pc' = "split_done"
    /\ UNCHANGED <<idx, datasets, label_mappings, config, image_processor,
                   training_arguments, trainer, next_instance, eval_pred,
                   evaluation_results, printed_size, fs, image, predictions, failure,
                   steps, writes, runs,
                   printed_parameters>>

InitSplit == Init \/ InitSplitDataset

NextSplit == Next \/ ApplySplitDataset

\* the notebook, together with split_dataset applied to bounded inputs
SpecSplit == InitSplit /\ [][NextSplit]_vars

\* =============================================================== claims
TaskRuns(t) == {k \in DOMAIN runs : runs[k].task = t}

Composed(t) == t \in DOMAIN config /\ "inference_model" \in DOMAIN config[t]

\* the mapping a composed inference model carries is the one its task trained with
C1_SameMappingAtInference ==
    \A t \in TaskIds :
        Composed(t) =>
            /\ TaskRuns(t) # {}
            /\ \A k \in TaskRuns(t) :
                /\ runs[k].label2id = config[t].inference_model.label2id
                /\ runs[k].id2label = config[t].inference_model.id2label

\* a step leaves every task's label2id and id2label entries as they were
C1_MappingEntriesKept ==
    \A t \in DOMAIN config :
        /\ config'[t].label2id = config[t].label2id
        /\ config'[t].id2label = config[t].id2label

\* C1: for every task, the label2id/id2label mapping the inference model was built
\* with equals the mapping the task's training model was built with, and no step
\* changes a task's label2id or id2label entry of the configuration map.
C1_LabelMappingPreserved ==
    [](C1_SameMappingAtInference) /\ [][C1_MappingEntriesKept]_vars

\* both tasks composed, with mappings that differ from task to task
C1_Witness ==
    /\ \A t \in TaskIds : Composed(t)
    /\ config["model1"].inference_model.id2label # config["model2"].inference_model.id2label

\* C2: every predict call gets the inference model and the image processor of the
\* task its sample names, and prints a label of that task's id2label mapping: a
\* class name of the task's own dataset and of no other task's label set.
C2_PredictionFromOwnLabelSet ==
    \A k \in DOMAIN predictions :
        LET p == predictions[k]
            t == samples[p.sample].model
        IN  /\ p.model = t
            /\ p.instance = config[t].inference_model.instance
            /\ p.processor = config[t].image_processor
            /\ p.processor.origin = config[t].path
            /\ p.label \in Range(config[t].id2label)
            /\ p.label \in Range(datasets[TaskIndex(t)].names)
            /\ \A u \in TaskIds \ {t} : p.label \notin Range(config[u].id2label)

\* a food picture and a pet picture have both been classified, one of them into a
\* class other than class 0
C2_Witness ==
    /\ \E k \in DOMAIN predictions : predictions[k].model = "model1"
    /\ \E k \in DOMAIN predictions :
        /\ predictions[k].model = "model2"
        /\ predictions[k].label = config["model2"].id2label[1]

\* two predict calls on the same picture with the same model printed the same label
C3_SameInputSameLabel ==
    \A j, k \in DOMAIN predictions :
        (predictions[j].instance = predictions[k].instance
            /\ predictions[j].image = predictions[k].image)
        => predictions[j].label = predictions[k].label

\* the predict statement leaves the configuration map, the disk and the trainer alone
C3_PredictReadsOnly ==
    pc = "predict" => (config' = config /\ fs' = fs /\ trainer' = trainer)

BackboneBytes == BytesPerParam * BackboneParams

\* C4: every artifact saved at a task's path is non-empty and strictly smaller on
\* disk than the frozen backbone: its files hold the adapter and the classifier
\* head and none holds backbone weights.
C4_ArtifactSmallerThanBackbone ==
    \A t \in DOMAIN printed_size :
        LET dir == fs[config[t].path]
        IN  /\ DOMAIN dir # {}
            /\ printed_size[t] = print_model_size(fs, config[t].path)
            /\ printed_size[t] > 0
            /\ printed_size[t] < BackboneBytes
            /\ \A f \in DOMAIN dir : "backbone" \notin dir[f].holds
            /\ dir.adapter_model.holds = {"lora", "classifier"}
            /\ dir.adapter_model.bytes =
                   BytesPerParam * (LoraParams + ClassifierParams(Cardinality(DOMAIN config[t].id2label)))

C4_Witness ==
    /\ DOMAIN printed_size = TaskIds
    /\ \A t \in TaskIds : printed_size[t] > 1000000

\* the task whose loop body the training loop is in
CurrentTask == Tasks[idx]

Done(name, t) == \E k \in DOMAIN steps : steps[k] = Step(name, t)

\* C5: the accuracy reported by an evaluation is the number of evaluated examples
\* whose argmax-over-classes prediction equals the reference label, divided by the
\* number of examples, hence a value in [0,1]; in a task's run the evaluated
\* examples are exactly the records of that task's held-out test split.
C5_AccuracyIsFractionCorrect ==
    /\ (pc = "metrics_computed" \/ \E k \in DOMAIN steps : steps[k].step = "evaluate") =>
        LET acc == evaluation_results.eval_accuracy
            n == Len(eval_pred.label_ids)
            correct == {k \in 1..n :
                          LET scores == eval_pred.predictions[k]
                              label == eval_pred.label_ids[k] + 1
                          IN  /\ \A c \in DOMAIN scores : scores[c] <= scores[label]
                              /\ \A c \in 1..(label - 1) : scores[c] < scores[label]}
        IN  /\ n > 0
            /\ Len(eval_pred.predictions) = n
            /\ acc.den = n
            /\ acc.num = Cardinality(correct)
            /\ 0 <= acc.num
            /\ acc.num <= acc.den
    /\ pc = "save_model" =>
        LET acc == evaluation_results.eval_accuracy
            test == config[CurrentTask].test_data.rows
            hits == {r \in test :
                       trainer.model.head[Backbone(RowPixels(r))] = RowLabel(datasets[idx], r)}
        IN  /\ test \in {split[2].rows : split \in split_dataset(datasets[idx])}
            /\ acc.den = Cardinality(test)
            /\ acc.num = Cardinality(hits)

\* the second task's run reported the accuracy 1 on its test split, with a head
\* that tells pictures apart
C5_Witness ==
    /\ pc = "save_model"
    /\ idx = 2
    /\ evaluation_results.eval_accuracy.num = evaluation_results.eval_accuracy.den
    /\ evaluation_results.eval_accuracy.den = Cardinality(config["model2"].test_data.rows)
    /\ trainer.model.head[TRUE] # trainer.model.head[FALSE]

\* compute_metrics returned an accuracy strictly between 0 and 1 for an output in
\* which an example's two scores tie
C5_FractionReached ==
    /\ pc = "metrics_computed"
    /\ evaluation_results.eval_accuracy.num > 0
    /\ evaluation_results.eval_accuracy.num < evaluation_results.eval_accuracy.den
    /\ \E k \in DOMAIN eval_pred.predictions :
        eval_pred.predictions[k][1] = eval_pred.predictions[k][2]

StepOrder ==
    <<"load", "preprocess", "build", "train", "evaluate", "save", "reload", "predict">>

IsPrefix(a, b) == Len(a) <= Len(b) /\ \A k \in DOMAIN a : a[k] = b[k]

\* the names of the steps taken for task t so far, in order
TaskSteps(t) ==
    LET mine == SelectSeq(steps, LAMBDA e : e.task = t)
    IN  [k \in DOMAIN mine |-> mine[k].step]

SamplesOf(t) == {k \in DOMAIN samples : samples[k].model = t}

\* the steps of a task whose pictures are all classified
FullRun(t) ==
    SubSeq(StepOrder, 1, 7) \o [k \in 1..Cardinality(SamplesOf(t)) |-> "predict"]

\* C6 as stated: for each task the steps happen in the order load, preprocess, build
\* adapter model, train, evaluate, save, reload adapter, predict, no step repeated
\* and none taken before its predecessor.
C6_EachStepOnce == \A t \in TaskIds : IsPrefix(TaskSteps(t), StepOrder)

\* C6 as amended: for each task the steps load, preprocess, build adapter model,
\* train, evaluate, save, reload adapter happen in that order, each at most once
\* and none before its predecessor; predict then runs once for every sample that
\* names the task (twice per task).  The adapter is reloaded only from a path its
\* task's save has filled, and predict runs only on a built inference model.
C6_LinearPerTask ==
    /\ \A t \in TaskIds : IsPrefix(TaskSteps(t), FullRun(t))
    /\ pc = "done" => \A t \in TaskIds : TaskSteps(t) = FullRun(t)
    /\ \A t \in TaskIds :
        Done("reload", t) =>
            /\ Done("save", t)
            /\ t \in DOMAIN printed_size
            /\ config[t].path \in DOMAIN fs
            /\ config[t].inference_model.head = fs[config[t].path].adapter_model.head
    /\ \A k \in DOMAIN predictions : Composed(predictions[k].model)

\* the run is over and every task went through all its steps
C6_Witness ==
    /\ pc = "done"
    /\ \A t \in TaskIds : Len(TaskSteps(t)) = 9

\* C7 as stated: every path that receives model artifacts is written by one task
\* only and once only, the trainer output directory included.
C7_EveryPathWrittenOnce ==
    \A j, k \in DOMAIN writes : writes[j].path = writes[k].path => j = k

ArtifactWrites == {k \in DOMAIN writes : writes[k].by = "save_model"}

CheckpointWritesOf(t) ==
    {k \in DOMAIN writes : writes[k].by = "train" /\ writes[k].task = t}

\* C7 as amended: each task's artifact path (./lora-model1, ./lora-model2) is
\* written once, by save_model of its own task, and no two tasks write the same
\* artifact path; the trainer output directory ./model-checkpoints is shared: every
\* task's run writes a checkpoint under it after each of its epochs (five for
\* model1, one for model2), one write at a time.
C7_ArtifactPathsWrittenOnce ==
    /\ \A k \in ArtifactWrites :
        /\ writes[k].path = config[writes[k].task].path
        /\ writes[k].path # training_arguments.output_dir
        /\ \A j \in ArtifactWrites : writes[j].path = writes[k].path => j = k
    /\ \A k \in DOMAIN writes \ ArtifactWrites :
        writes[k].path = "./model-checkpoints"
    /\ \A t \in TaskIds :
        /\ Cardinality(CheckpointWritesOf(t)) <= TaskEpochs(t)
        /\ Done("train", t) => Cardinality(CheckpointWritesOf(t)) = TaskEpochs(t)
        /\ Done("save", t) =>
             \E k \in ArtifactWrites : writes[k].task = t /\ writes[k].path = TaskPath(t)

\* both artifacts are saved, and both runs have written under the output directory
C7_Witness ==
    /\ Cardinality(ArtifactWrites) = 2
    /\ \A t \in TaskIds : CheckpointWritesOf(t) # {}
    /\ Cardinality(DOMAIN fs) = 3

\* the step a statement logs when it completes
StepOf(statement) ==
    CASE statement = "load_dataset" -> "load"
      [] statement = "trainer" -> "build"
      [] statement = "train" -> "train"
      [] statement = "evaluate" -> "evaluate"
      [] statement = "save_model" -> "save"
      [] statement = "build_inference_model" -> "reload"
      [] statement = "predict" -> "predict"
      [] OTHER -> "none"

InTrainingLoop(statement) == statement \in {"trainer", "train", "evaluate", "save_model"}

\* what holds of a state in which a statement has raised
C8_Stopped ==
    failure # NoFailure =>
        /\ pc = "failed"
        /\ failure.step \in {"load_dataset", "trainer", "train", "evaluate", "save_model",
                             "build_inference_model"} =>
             ~Done(StepOf(failure.step), Tasks[failure.idx])
        /\ failure.step = "predict" =>
             Cardinality({k \in DOMAIN steps : steps[k].step = "predict"}) = failure.idx - 1
        /\ failure.step \in {"trainer", "train", "evaluate"} =>
             /\ config[Tasks[failure.idx]].path \notin DOMAIN fs
             /\ Tasks[failure.idx] \notin DOMAIN printed_size
        /\ InTrainingLoop(failure.step) =>
             /\ \A t \in TaskIds : ~Done("reload", t) /\ ~Done("predict", t)
             /\ \A t \in TaskIds :
                  TaskIndex(t) > failure.idx =>
                     /\ ~Done("build", t)
                     /\ ~Done("train", t)
                     /\ config[t].path \notin DOMAIN fs
        /\ failure.step \in {"build_inference_model", "load_image_processor"} =>
             /\ predictions = <<>>
             /\ \A t \in TaskIds : TaskIndex(t) > failure.idx => ~Composed(t)

\* C8: a failure in any step propagates uncaught and stops the run: the failed step
\* is not retried, no later step of that task and no step of a later task runs,
\* and a task whose training or evaluation failed has no artifact at its path.
C8_FailureStopsRun ==
    [](C8_Stopped) /\ [][failure = NoFailure /\ pc # "failed"]_vars

\* the second task's training failed after the first task's artifact was saved
C8_Witness ==
    /\ failure = [step |-> "train", idx |-> 2]
    /\ "./lora-model1" \in DOMAIN fs
    /\ "./lora-model2" \notin DOMAIN fs

AllDistinct(names) == \A i, j \in DOMAIN names : names[i] = names[j] => i = j

\* C9: for a dataset whose n class names are pairwise distinct, label2id and
\* id2label are inverse bijections between the names and the ids 0..n-1, in the
\* order of the names; the mapping is fixed by the name list alone, whatever the
\* split, and it is what the configuration map holds for the task.
C9_LabelMappingsBijective ==
    /\ \A d \in DOMAIN label_mappings :
        LET names == datasets[d].names
            n == Len(names)
            label2id == label_mappings[d].label2id
            id2label == label_mappings[d].id2label
        IN  AllDistinct(names) =>
                /\ DOMAIN id2label = 0..(n - 1)
                /\ DOMAIN label2id = Range(names)
                /\ \A i \in 1..n : id2label[i - 1] = names[i] /\ label2id[names[i]] = i - 1
                /\ \A l \in DOMAIN label2id : id2label[label2id[l]] = l
                /\ \A i \in DOMAIN id2label : label2id[id2label[i]] = i
    /\ \A t \in DOMAIN config :
        /\ config[t].label2id = label_mappings[TaskIndex(t)].label2id
        /\ config[t].id2label = label_mappings[TaskIndex(t)].id2label

\* a mapping of three names listed out of their pool order
C9_Witness ==
    /\ pc = "label_mappings_created"
    /\ Len(datasets[1].names) = 3
    /\ datasets[1].names[1] = <<"pool", 2>>
    /\ label_mappings[1].label2id[<<"pool", 2>>] = 0

\* C10: trainer.train() runs once per task, each run with that task's configured
\* epoch count (5 for model1, 1 for model2) and that task's own train and test
\* splits, although the one shared training_arguments object is changed in place
\* before each run.
C10_OwnEpochsPerRun ==
    /\ \A k \in DOMAIN runs :
        LET t == runs[k].task
        IN  /\ runs[k].num_train_epochs = config[t].epochs
            /\ runs[k].num_train_epochs = TaskEpochs(t)
            /\ runs[k].train_dataset = config[t].train_data
            /\ runs[k].eval_dataset = config[t].test_data
            /\ runs[k].train_dataset.dataset = Datasets[TaskIndex(t)]
            /\ runs[k].train_dataset.rows \cap runs[k].eval_dataset.rows = {}
            /\ Cardinality(CheckpointWritesOf(t)) = TaskEpochs(t)
    /\ \A t \in TaskIds : Cardinality(TaskRuns(t)) <= 1
    /\ \A t \in TaskIds : Done("train", t) <=> TaskRuns(t) # {}
    /\ pc = "done" => \A t \in TaskIds : Cardinality(TaskRuns(t)) = 1
    /\ pc \in {"train", "evaluate", "save_model"} =>
        training_arguments.num_train_epochs = config[CurrentTask].epochs

\* both runs are over and the shared object holds the last task's epoch count
C10_Witness ==
    /\ Len(runs) = 2
    /\ runs[1].num_train_epochs = 5
    /\ runs[2].num_train_epochs = 1
    /\ training_arguments.num_train_epochs = 1

\* C11: split_dataset cuts a dataset into a train and a test split that are
\* disjoint and together hold every record; the test split holds a tenth of the
\* records, rounded up (exactly 10% when the size is a multiple of ten, as the
\* sizes of the notebook's two datasets are); the splits a task trains and
\* evaluates on are the two splits of its own dataset, so no record a task is
\* evaluated on is a record it was trained on.
C11_SplitPartitions ==
    /\ \A k \in DOMAIN dataset_splits :
        LET rows == datasets[k].rows
            train == dataset_splits[k][1].rows
            test == dataset_splits[k][2].rows
        IN  /\ train \cap test = {}
            /\ train \cup test = rows
            /\ 10 * Cardinality(test) >= Cardinality(rows)
            /\ 10 * (Cardinality(test) - 1) < Cardinality(rows)
            /\ Cardinality(rows) % 10 = 0 =>
                    /\ 10 * Cardinality(test) = Cardinality(rows)
                    /\ 10 * Cardinality(train) = 9 * Cardinality(rows)
            /\ dataset_splits[k][1].dataset = datasets[k].name
            /\ dataset_splits[k][2].dataset = datasets[k].name
    /\ \A t \in DOMAIN config :
        /\ config[t].train_data.rows = dataset_splits[TaskIndex(t)][1].rows
        /\ config[t].test_data.rows = dataset_splits[TaskIndex(t)][2].rows
    /\ \A k \in DOMAIN runs :
        /\ runs[k].train_dataset.rows = dataset_splits[TaskIndex(runs[k].task)][1].rows
        /\ runs[k].eval_dataset.rows = dataset_splits[TaskIndex(runs[k].task)][2].rows
        /\ runs[k].train_dataset.rows \cap config[runs[k].task].test_data.rows = {}
    /\ pc = "save_model" =>
        Len(eval_pred.label_ids) = Cardinality(config[CurrentTask].test_data.rows)

\* a dataset of ten records was cut, and the shuffle put the seventh into the test split
C11_Witness ==
    /\ pc = "split_done"
    /\ datasets[1].rows = 1..10
    /\ dataset_splits[1][2].rows = {7}
    /\ dataset_splits[1][1].rows = (1..10) \ {7}

\* the lines printed while the model of the k-th build was put together
BaseLine(k) == printed_parameters[2 * k - 1]

LoraLine(k) == printed_parameters[2 * k]

\* C12: in the model build_lora_model returns, the trainable parameters are the
\* rank-16 adapter matrices on query and value and the classifier head (its
\* modules_to_save copy), and the backbone is frozen; the LoRA line that
\* print_trainable_parameters prints has a trainable count above zero and below
\* the total, the base model's line before wrapping a trainable count equal to
\* the total.
C12_OnlyAdapterAndHeadTrainable ==
    /\ (\E t \in TaskIds : Done("build", t)) =>
        LET model == trainer.model
        IN  /\ model.peft
            /\ model.trainable = {"lora", "classifier_copy"}
            /\ "backbone" \notin model.trainable
            /\ model.lora_targets = {"query", "value"}
            /\ model.modules_to_save = {"classifier"}
            /\ model.params.lora = NumLayers * 2 * LoraRank * (HiddenSize + HiddenSize)
            /\ model.params.classifier_copy = ClassifierParams(model.num_labels)
            /\ model.params.backbone = BackboneParams
    /\ Len(printed_parameters) = 2 * Cardinality({k \in DOMAIN steps : steps[k].step = "build"})
    /\ \A k \in 1..(Len(printed_parameters) \div 2) :
        LET n == Cardinality(DOMAIN config[Tasks[k]].id2label)
        IN  /\ BaseLine(k).label = "Base model"
            /\ LoraLine(k).label = "LoRA"
            /\ BaseLine(k).trainable = BaseLine(k).parameters
            /\ BaseLine(k).parameters = BackboneParams + ClassifierParams(n)
            /\ LoraLine(k).trainable > 0
            /\ LoraLine(k).trainable < LoraLine(k).parameters
            /\ LoraLine(k).trainable = LoraParams + ClassifierParams(n)
            /\ LoraLine(k).parameters = BaseLine(k).parameters + LoraLine(k).trainable
    \* the counts the notebook printed for the 101 food classes
    /\ LET id2label == [i \in 0..100 |-> i]
           label2id == [i \in 0..100 |-> i]
           lines == build_lora_model_prints(label2id, id2label, 1)
       IN  /\ lines[1].trainable = 85876325 /\ lines[1].parameters = 85876325
           /\ lines[2].trainable = 667493 /\ lines[2].parameters = 86543818

\* both models were built and trained: four lines are out, and training left the
\* second model's frozen groups frozen
C12_Witness ==
    /\ Len(printed_parameters) = 4
    /\ LoraLine(2).trainable < LoraLine(2).parameters
    /\ BaseLine(2).trainable = BaseLine(2).parameters
    /\ Done("build", "model2")
    /\ trainer.model.adapter = "trained"
    /\ trainer.model.label2id = config["model2"].label2id

\* the fields of a task's entry that cell 5 wrote
ConfigFields == {"train_data", "test_data", "label2id", "id2label", "epochs", "path"}

InComposerLoop == pc \in {"build_inference_model", "load_image_processor"}

\* no two tasks share an inference model or a backbone instance, every inference
\* model sits on a base model loaded for it alone, with its own task's adapter
C13_OwnBackbonePerTask ==
    /\ \A t \in TaskIds : Composed(t) =>
        /\ config[t].inference_model.adapter = config[t].path
        /\ config[t].inference_model.instance > Len(Tasks)
        /\ config[t].inference_model.instance < next_instance
        /\ \A u \in TaskIds \ {t} : Composed(u) =>
            /\ config[t].inference_model.instance # config[u].inference_model.instance
            /\ config[t].inference_model # config[u].inference_model
    /\ \A t \in DOMAIN config :
        /\ ConfigFields \subseteq DOMAIN config[t]
        /\ DOMAIN config[t] \subseteq ConfigFields \cup {"inference_model", "image_processor"}
        /\ config[t].train_data.rows = dataset_splits[TaskIndex(t)][1].rows
        /\ config[t].test_data.rows = dataset_splits[TaskIndex(t)][2].rows
        /\ config[t].label2id = label_mappings[TaskIndex(t)].label2id
        /\ config[t].id2label = label_mappings[TaskIndex(t)].id2label
        /\ config[t].epochs = TaskEpochs(t)
        /\ config[t].path = TaskPath(t)
    /\ pc \in {"fetch_image", "predict", "done"} =>
        \A t \in TaskIds :
            DOMAIN config[t] = ConfigFields \cup {"inference_model", "image_processor"}

\* a step of the composer loop touches the current task's entry only, adds nothing
\* but the two inference fields to it, and no step at all changes an inference
\* model that is already in place
C13_ComposerFrame ==
    /\ InComposerLoop /\ pc' # "failed" =>
        /\ \A t \in TaskIds \ {CurrentTask} : config'[t] = config[t]
        /\ \A f \in ConfigFields : config'[CurrentTask][f] = config[CurrentTask][f]
        /\ DOMAIN config'[CurrentTask] \ DOMAIN config[CurrentTask]
                = IF pc = "build_inference_model" THEN {"inference_model"}
                  ELSE {"image_processor"}
    /\ \A t \in TaskIds : Composed(t) =>
        /\ Composed(t)'
        /\ config'[t].inference_model = config[t].inference_model

\* C13: build_inference_model loads a new base model on every call, so after the
\* inference-composer loop no two tasks share an inference model or a backbone
\* instance; attaching one task's adapter leaves the model another task predicts
\* with as it was; the loop adds only the inference_model and image_processor
\* fields to each task's entry and leaves its splits, label mappings, epochs and
\* path unchanged.
C13_AdapterOnOwnBackbone == [](C13_OwnBackbonePerTask) /\ [][C13_ComposerFrame]_vars

\* the loop is over: both tasks hold an inference model, each on its own instance
C13_Witness ==
    /\ pc = "fetch_image"
    /\ Composed("model1") /\ Composed("model2")
    /\ config["model1"].inference_model.instance = 3
    /\ config["model2"].inference_model.instance = 4
    /\ config["model2"].inference_model.adapter = "./lora-model2"
    /\ "image_processor" \in DOMAIN config["model2"]

====
